---- MODULE Spec2Model ----
(***************************************************************************)
(* A model of LLManpages: scrape.py collects man pages (validity gate,     *)
(* groff renderer, section-header parse, alignment of the parsed titles    *)
(* to the rendered text) into man_pages.json; gen_samples.py turns every   *)
(* collected document into one dataset record per masking split of its    *)
(* sections.                                                                *)
(*                                                                         *)
(* Text is modelled at character level: a Python str is a sequence of      *)
(* one-character strings.  Two characters cannot be written in a TLA+      *)
(* string and are symbols of their own: the escape character 0x1B is       *)
(* "ESC" and the grave accent 0x60 is "GRAVE".                             *)
(***************************************************************************)
EXTENDS Integers, Sequences, FiniteSets, TLC

VARIABLES
    pc,        \* "scrape" | "generate" | "done": which loop is running
    files,     \* os.listdir(abs_path): the files extract_man_pages walks
    fi,        \* position of extract_man_pages' loop in files (1-based)
    rendered,  \* the renderer's calls in order: the file and whether it succeeded
    data,      \* extract_man_pages' list `data`
    aligned,   \* per entry of data: its file, the cleaned text and the spans
               \* extract_and_map_sections sliced it at
    dataset,   \* gen_samples' `dataset`, loaded from man_pages.json
    gi,        \* position of generate_fine_tuning_samples' loop in dataset
    out        \* the records written to the output file, in write order

vars == <<pc, files, fi, rendered, data, aligned, dataset, gi, out>>

(***************************************************************************)
(* Bounds of the model.                                                    *)
(***************************************************************************)
\* longest directory listing explored for scrape.py
MaxFiles == 2
\* longest dataset explored for gen_samples.py
MaxDocs == 2
\* most sections of a document in the datasets with varied text
MaxSmallSections == 4
\* most sections of a document in the datasets that probe the section-count
\* gate (one past the gate's upper limit)
MaxDocSections == 11
\* most sections of a whole dataset that probes the gate
MaxTotalSections == 13

(***************************************************************************)
(* Characters and strings.                                                 *)
(***************************************************************************)
\* The printable ASCII characters, code 32 (index 1) to code 126 (index 95).
Ascii ==
    <<" ","!","\"","#","$","%","&","'","(",")","*","+",",","-",".","/",
      "0","1","2","3","4","5","6","7","8","9",":",";","<","=",">","?",
      "@","A","B","C","D","E","F","G","H","I","J","K","L","M","N","O",
      "P","Q","R","S","T","U","V","W","X","Y","Z","[","\\","]","^","_",
      "GRAVE","a","b","c","d","e","f","g","h","i","j","k","l","m","n","o",
      "p","q","r","s","t","u","v","w","x","y","z","{","|","}","~">>

\* The characters with codes lo..hi (both printable).
CodeRange(lo, hi) == {Ascii[i] : i \in (lo - 31)..(hi - 31)}

\* What str.strip() and the regex class \s remove, among the characters used.
Whitespace == {" ", "\n", "\t"}

LowerCase == CodeRange(97, 122)

\* str.upper() on one character.
UpperChar ==
    [c \in CodeRange(32, 126) \cup {"\n", "\t", "ESC"} |->
        IF c \in LowerCase
        THEN Ascii[(CHOOSE i \in 66..91 : Ascii[i] = c) - 32]
        ELSE c]

\* str.upper()
Upper(s) == [i \in 1..Len(s) |-> UpperChar[s[i]]]

\* Whether `sub` occurs in s at 0-based offset p.
MatchAt(s, sub, p) ==
    /\ p >= 0
    /\ p + Len(sub) <= Len(s)
    /\ \A k \in 1..Len(sub) : s[p + k] = sub[k]

\* str.find(sub, start): the lowest 0-based offset >= start where sub
\* occurs, or -1.
Find(s, sub, start) ==
    LET hits == {p \in start..(Len(s) - Len(sub)) : MatchAt(s, sub, p)}
    IN  IF hits = {} THEN -1
        ELSE CHOOSE p \in hits : \A q \in hits : p <= q

\* `sub in s`
Contains(s, sub) == \E p \in 0..(Len(s) - Len(sub)) : MatchAt(s, sub, p)

\* str.index(sub) where sub occurs: the first occurrence, searched from 0.
Index(s, sub) == Find(s, sub, 0)

\* s[start:end] for start >= 0: a negative end counts from the end of s.
Slice(s, start, end) ==
    LET e0 == IF end < 0 THEN end + Len(s) ELSE end
        e  == IF e0 < 0 THEN 0 ELSE IF e0 > Len(s) THEN Len(s) ELSE e0
    IN  IF start >= e THEN <<>> ELSE SubSeq(s, start + 1, e)

\* str.strip()
Strip(s) ==
    LET keep == {i \in 1..Len(s) : s[i] \notin Whitespace}
    IN  IF keep = {} THEN <<>>
        ELSE SubSeq(s, CHOOSE i \in keep : \A j \in keep : i <= j,
                       CHOOSE i \in keep : \A j \in keep : i >= j)

RECURSIVE Join(_, _)
\* sep.join(parts)
Join(sep, parts) ==
    IF Len(parts) = 0 THEN <<>>
    ELSE IF Len(parts) = 1 THEN parts[1]
    ELSE parts[1] \o sep \o Join(sep, Tail(parts))

RECURSIVE Flatten(_)
\* The concatenation of a sequence of sequences.
Flatten(ss) == IF Len(ss) = 0 THEN <<>> ELSE Head(ss) \o Flatten(Tail(ss))

Range(s) == {s[i] : i \in 1..Len(s)}

(***************************************************************************)
(* gen_samples.py                                                          *)
(***************************************************************************)
\* the section-count gate's limits
MinSections == 2
MaxSections == 10

OpenTag == <<"<","S","E","C","T","I","O","N",">">>
CloseTag == <<"<","/","S","E","C","T","I","O","N",">">>
Newline == <<"\n">>

RECURSIVE IndexCombinations(_, _, _)
\* itertools.combinations(range(lo, n + 1), r): the r-element index tuples,
\* each increasing, in lexicographic order.
IndexCombinations(lo, n, r) ==
    IF r = 0 THEN << <<>> >>
    ELSE Flatten([k \in 1..(n - r + 2 - lo) |->
            LET first == lo + k - 1
                rest  == IndexCombinations(first + 1, n, r - 1)
            IN  [j \in 1..Len(rest) |-> <<first>> \o rest[j]]])

\* itertools.combinations(sections, r)
Combinations(sections, r) ==
    LET idx == IndexCombinations(1, Len(sections), r)
    IN  [j \in 1..Len(idx) |-> [k \in 1..r |-> sections[idx[j][k]]]]

\* The output side collected from the last section to the first.
OutputSections_FromEnd(sections, input_sections) ==
    LET kept == SelectSeq(sections, LAMBDA s : s \notin Range(input_sections))
    IN  [k \in 1..Len(kept) |-> kept[Len(kept) + 1 - k]]

\* [s for s in sections if s not in input_sections]
OutputSections(sections, input_sections) ==
    SelectSeq(sections, LAMBDA s : s \notin Range(input_sections))

\* range(1, len(sections) + 1): the full title set taken as an input too.
InputSizes_ThroughAll(sections) == 1..Len(sections)

\* range(1, len(sections)): the input sizes generate_combinations walks
InputSizes(sections) == 1..(Len(sections) - 1)

\* The input sizes walked from the largest to the smallest.
generate_combinations_LargestFirst(sections) ==
    Flatten([q \in InputSizes(sections) |->
        LET combos == Combinations(sections, Len(sections) - q)
        IN  [j \in 1..Len(combos) |->
                [input_sections  |-> combos[j],
                 output_sections |-> OutputSections(sections, combos[j])]]])

\* generate_combinations(sections): the (input, output) pairs, in order.
generate_combinations(sections) ==
    Flatten([r \in InputSizes(sections) |->
        LET combos == Combinations(sections, r)
        IN  [j \in 1..Len(combos) |->
                [input_sections  |-> combos[j],
                 output_sections |-> OutputSections(sections, combos[j])]]])

\* list(sections.keys())
Keys(sections) == [i \in 1..Len(sections) |-> sections[i].title]

\* sections[title]
Lookup(sections, title) ==
    sections[CHOOSE i \in 1..Len(sections) : sections[i].title = title].content

\* The block with the content as stored, not stripped.
Block_Unstripped(sections, title) ==
    OpenTag \o title \o CloseTag \o Newline \o Lookup(sections, title)

\* f"<SECTION>{title}</SECTION>\n{sections[title].strip()}"
Block(sections, title) ==
    OpenTag \o title \o CloseTag \o Newline \o Strip(Lookup(sections, title))

\* "\n".join(<block> for title in titles): one side of a record
FormatSide(sections, titles) ==
    Join(Newline, [k \in 1..Len(titles) |-> Block(sections, titles[k])])

\* The records one dataset entry contributes (lines 53-70), each with the
\* loop's locals: the entry's position and the two title lists.
EntryRecords(idx, sections) ==
    LET combinations == generate_combinations(Keys(sections))
    IN  [j \in 1..Len(combinations) |->
            [doc             |-> idx,
             input_sections  |-> combinations[j].input_sections,
             output_sections |-> combinations[j].output_sections,
             input           |-> FormatSide(sections, combinations[j].input_sections),
             output          |-> FormatSide(sections, combinations[j].output_sections)]]

\* `len(section_titles) < 2`
TooFewSections(n) == n < MinSections

\* `len(section_titles) >= 10`
TooManySections_OffByOne(n) == n >= MaxSections

\* `len(section_titles) > 10`
TooManySections(n) == n > MaxSections

\* One iteration of the loop over the dataset whose entry has fewer than
\* two sections: `continue`.
GenSkipFew ==
    /\ pc = "generate"
    /\ gi <= Len(dataset)
    /\ TooFewSections(Len(dataset[gi].sections))
    /\ gi' = gi + 1
    /\ UNCHANGED <<pc, files, fi, rendered, data, aligned, dataset, out>>

\* One iteration whose entry has more than ten sections: `continue`.
GenSkipMany ==
    /\ pc = "generate"
    /\ gi <= Len(dataset)
    /\ ~TooFewSections(Len(dataset[gi].sections))
    /\ TooManySections(Len(dataset[gi].sections))
    /\ gi' = gi + 1
    /\ UNCHANGED <<pc, files, fi, rendered, data, aligned, dataset, out>>

\* One iteration that passes the gate: every combination's record is
\* written, in order.
GenEmit ==
    /\ pc = "generate"
    /\ gi <= Len(dataset)
    /\ ~TooFewSections(Len(dataset[gi].sections))
    /\ ~TooManySections(Len(dataset[gi].sections))
    /\ out' = out \o EntryRecords(gi, dataset[gi].sections)
    /\ gi' = gi + 1
    /\ UNCHANGED <<pc, files, fi, rendered, data, aligned, dataset>>

\* The loop over the dataset ends; the output file is closed.
GenDone ==
    /\ pc = "generate"
    /\ gi > Len(dataset)
    /\ pc' = "done"
    /\ UNCHANGED <<files, fi, rendered, data, aligned, dataset, gi, out>>

(***************************************************************************)
(* The datasets gen_samples.py is run on: man_pages.json as any JSON file  *)
(* of the input format (titles are an object's keys, hence distinct).      *)
(***************************************************************************)
\* Section bodies with leading, trailing and inner whitespace.
Bodies ==
    << <<>>, <<" ","x","\n">>, <<"y"," ","z">>, <<"\n"," ">> >>

\* A document of n sections titled "A", "B", ...
SizedDoc(n) ==
    [name |-> <<"d">>,
     sections |-> [k \in 1..n |->
        [title |-> <<Ascii[33 + k]>>, content |-> Bodies[(k % 4) + 1]]]]

\* The example document of the specification.
LsDoc ==
    [name |-> <<"l","s">>,
     sections |-> <<
        [title |-> <<"N","A","M","E">>,
         content |-> <<"l","s"," ","-"," ","l","i","s","t"," ","d","i","r","e","c","t","o","r","y"," ","c","o","n","t","e","n","t","s">>],
        [title |-> <<"O","P","T","I","O","N","S">>,
         content |-> <<"-","a"," "," ","d","o"," ","n","o","t"," ","i","g","n","o","r","e"," ","e","n","t","r","i","e","s"," ","s","t","a","r","t","i","n","g"," ","w","i","t","h"," ",".">>] >>]

\* Titles of which one is a prefix of the other, bodies padded with whitespace.
PrefixDoc ==
    [name |-> <<"p">>,
     sections |-> <<
        [title |-> <<"N","A">>, content |-> <<" ","\t","a"," ","b","\n","\n">>],
        [title |-> <<"N","A","M","E">>, content |-> <<"\n">>],
        [title |-> <<"N">>, content |-> <<"c">>] >>]

RECURSIVE SeqsUpTo(_, _)
\* The sequences over S of length at most n.
SeqsUpTo(S, n) ==
    IF n = 0 THEN {<<>>}
    ELSE LET shorter == SeqsUpTo(S, n - 1)
         IN  shorter \cup {Append(s, x) : s \in shorter, x \in S}

RECURSIVE TotalSections(_)
TotalSections(ds) ==
    IF Len(ds) = 0 THEN 0
    ELSE Len(Head(ds).sections) + TotalSections(Tail(ds))

\* Datasets of varied text: documents of few sections, and one the gate
\* turns away for having too many.
TextDatasets ==
    SeqsUpTo({SizedDoc(n) : n \in 0..MaxSmallSections}
                \cup {SizedDoc(MaxSections + 1), LsDoc, PrefixDoc}, MaxDocs)

\* Datasets of every section count from none to past the gate's limit.
GateDatasets ==
    {ds \in SeqsUpTo({SizedDoc(n) : n \in 0..MaxDocSections}, MaxDocs) :
        TotalSections(ds) <= MaxTotalSections}

\* gen_samples.py started on the dataset file ds.
GenStartsOn(ds) ==
    /\ pc = "generate"
    /\ files = <<>>
    /\ fi = 1
    /\ rendered = <<>>
    /\ data = <<>>
    /\ aligned = <<>>
    /\ dataset = ds
    /\ gi = 1
    /\ out = <<>>

InitGen == \E ds \in TextDatasets : GenStartsOn(ds)

InitGate == \E ds \in GateDatasets : GenStartsOn(ds)

NextGen == GenSkipFew \/ GenSkipMany \/ GenEmit \/ GenDone

SpecGen == InitGen /\ [][NextGen]_vars

SpecGate == InitGate /\ [][NextGen]_vars


(***************************************************************************)
(* scrape.py                                                               *)
(***************************************************************************)
Esc == "ESC"

\* The character of t at 0-based offset q.
CharAt(t, q) == t[q + 1]

RECURSIVE RunEnd(_, _, _)
\* The end of the longest run of characters of class `cls` that starts at
\* offset p: what a greedy `[cls]*` consumes.
RunEnd(t, p, cls) ==
    IF p < Len(t) /\ CharAt(t, p) \in cls THEN RunEnd(t, p + 1, cls) ELSE p

\* The length of the match of
\*     \x1B(?:[@-Z\\-_]|\[[0-?]*[ -/]*[@-~])
\* at offset p, or 0 when there is none.  The three classes of the second
\* alternative are disjoint, so backtracking finds nothing greedy matching
\* misses.
AnsiMatchLen(t, p) ==
    IF ~(p + 1 < Len(t) /\ CharAt(t, p) = Esc) THEN 0
    ELSE IF CharAt(t, p + 1) \in CodeRange(64, 90) \cup CodeRange(92, 95) THEN 2
    ELSE IF CharAt(t, p + 1) # "[" THEN 0
    ELSE LET u == RunEnd(t, p + 2, CodeRange(48, 63))
             v == RunEnd(t, u, CodeRange(32, 47))
         IN  IF v < Len(t) /\ CharAt(t, v) \in CodeRange(64, 126)
             THEN v + 1 - p
             ELSE 0

RECURSIVE SubAnsi(_, _)
\* ansi_escape.sub('', text) from offset p on.
SubAnsi(t, p) ==
    IF p >= Len(t) THEN <<>>
    ELSE IF AnsiMatchLen(t, p) > 0 THEN SubAnsi(t, p + AnsiMatchLen(t, p))
    ELSE <<CharAt(t, p)>> \o SubAnsi(t, p + 1)

clear_terminal_formatting(text) == SubAnsi(text, 0)

required_sections == << <<"N","A","M","E">> >>
groff_macros == << <<".","S","H">>, <<".","T","H">>, <<".","P","P">>, <<".","b","r">> >>

\* A variant that compares the section title as written.
HasSection_CaseSensitive(content, section) == Contains(content, section)

\* `section in content.upper()`
HasSection(content, section) == Contains(Upper(content), section)

is_standard_groff(content) ==
    LET has_sections ==
            \A k \in 1..Len(required_sections) : HasSection(content, required_sections[k])
        has_groff_formatting ==
            \E k \in 1..Len(groff_macros) : Contains(content, groff_macros[k])
    IN  has_sections /\ has_groff_formatting

\* `^` under re.MULTILINE
AtLineStart(t, p) == p = 0 \/ CharAt(t, p - 1) = "\n"

\* Where `\s*$` (re.MULTILINE) ends when tried at offset q, or -1 when it
\* fails: greedy \s* takes the whole whitespace run and gives characters
\* back until it stands at the end of the text or before a newline.
TailEnd(t, q) ==
    LET e  == RunEnd(t, q, Whitespace)
        js == {j \in q..(e - 1) : CharAt(t, j) = "\n"}
    IN  IF e = Len(t) THEN e
        ELSE IF js = {} THEN -1
        ELSE CHOOSE j \in js : \A k \in js : k <= j

\* Where `"?\s*$` ends when tried at offset q, or -1: the quote is taken
\* when there is one, and given back if the rest then fails.
QuotedTailEnd(t, q) ==
    IF q < Len(t) /\ CharAt(t, q) = "\"" /\ TailEnd(t, q + 1) # -1
    THEN TailEnd(t, q + 1)
    ELSE TailEnd(t, q)

RECURSIVE GroupEnd(_, _)
\* The end of the lazy group `(.*?)` that starts at or before offset q: the
\* first offset from q on at which the rest of the pattern matches.
GroupEnd(t, q) == IF QuotedTailEnd(t, q) # -1 THEN q ELSE GroupEnd(t, q + 1)

\* Whether  ^\s*\.SH\s+  matches at offset p (the rest of the pattern then
\* always matches: the group may run to the end of the line).
HeaderAt(t, p) ==
    LET a == RunEnd(t, p, Whitespace)
    IN  /\ AtLineStart(t, p)
        /\ MatchAt(t, <<".","S","H">>, a)
        /\ a + 3 < Len(t)
        /\ CharAt(t, a + 3) \in Whitespace

\* The match at offset p whose group spans the offsets q0 to q.
MatchWithGroup(t, p, q0, q) ==
    [start |-> p, end |-> QuotedTailEnd(t, q), group |-> Slice(t, q0, q)]

\* The offset the group starts at when  \s+"?  was tried at offset b0: past
\* the whitespace run, and past a quote that follows it.
GroupStart(t, b0) ==
    IF RunEnd(t, b0, Whitespace) < Len(t) /\ CharAt(t, RunEnd(t, b0, Whitespace)) = "\""
    THEN RunEnd(t, b0, Whitespace) + 1
    ELSE RunEnd(t, b0, Whitespace)

\* The match of  ^\s*\.SH\s+"?(.*?)"?\s*$  at offset p, where HeaderAt.
HeaderMatch(t, p) ==
    MatchWithGroup(t, p, GroupStart(t, RunEnd(t, p, Whitespace) + 3),
                   GroupEnd(t, GroupStart(t, RunEnd(t, p, Whitespace) + 3)))

RECURSIVE FindHeaders(_, _)
\* The match m and the matches after it.
HeadersFrom(t, m) == <<m>> \o FindHeaders(t, m.end)

\* list(section_regex.finditer(groff_content)) from offset pos on.
FindHeaders(t, pos) ==
    IF pos > Len(t) THEN <<>>
    ELSE IF HeaderAt(t, pos) THEN HeadersFrom(t, HeaderMatch(t, pos))
    ELSE FindHeaders(t, pos + 1)

\* A variant whose spans run on to the end of the next header line.
SpansOfMatches_ThroughNextHeader(groff_content, matches) ==
    [i \in 1..Len(matches) |->
        [title |-> Strip(matches[i].group),
         start |-> matches[i].end,
         end   |-> IF i < Len(matches) THEN matches[i + 1].end
                   ELSE Len(groff_content)]]

\* Lines 109-112 for the matches: each title with `start` and `end`.
SpansOfMatches(groff_content, matches) ==
    [i \in 1..Len(matches) |->
        [title |-> Strip(matches[i].group),
         start |-> matches[i].end,
         end   |-> IF i < Len(matches) THEN matches[i + 1].start
                   ELSE Len(groff_content)]]

\* The title and the span of raw text of every header match (lines 109-112).
RawSpans(groff_content) ==
    SpansOfMatches(groff_content, FindHeaders(groff_content, 0))

\* d[k] = v on a dict kept as the sequence of its items in insertion order:
\* a key already there keeps its place and takes the new value.
DictPut(d, k, v) ==
    IF \E i \in 1..Len(d) : d[i].title = k
    THEN [i \in 1..Len(d) |-> IF d[i].title = k THEN [title |-> k, content |-> v] ELSE d[i]]
    ELSE Append(d, [title |-> k, content |-> v])

RECURSIVE PutSpans(_, _, _)
PutSpans(d, groff_content, spans) ==
    IF Len(spans) = 0 THEN d
    ELSE PutSpans(DictPut(d, Head(spans).title,
                          Strip(Slice(groff_content, Head(spans).start, Head(spans).end))),
                  groff_content, Tail(spans))

\* The dict `subsections` after the loop of lines 108-114.
Subsections(groff_content) == PutSpans(<<>>, groff_content, RawSpans(groff_content))

\* Whether the loop of lines 117-134 maps the title (`title in cleaned_content`).
TitleFound(cleaned_content, title) == Contains(cleaned_content, title)

\* `start` of line 120
ContentStart(cleaned_content, title) == Index(cleaned_content, title) + Len(title)

\* `end` of lines 122-128 for the i-th key (1-based) of `keys`
ContentEnd(cleaned_content, keys, i) ==
    IF i < Len(keys)
    THEN Find(cleaned_content, keys[i + 1], ContentStart(cleaned_content, keys[i]))
    ELSE Len(cleaned_content)

\* A variant whose loop ends at the first title it does not find.
MappedKeys_StopAtMissing(cleaned_content, keys) ==
    SelectSeq([i \in 1..Len(keys) |-> i],
              LAMBDA i : \A k \in 1..i : Contains(cleaned_content, keys[k]))

\* The indices of the keys the loop of lines 117-134 maps, in loop order.
MappedKeys(cleaned_content, keys) ==
    SelectSeq([i \in 1..Len(keys) |-> i],
              LAMBDA i : TitleFound(cleaned_content, keys[i]))

\* Per key numbered in `kept` the `start` and `end` of lines 120-128.
SpansOfKeys(cleaned_content, keys, kept) ==
    [k \in 1..Len(kept) |->
        [title |-> keys[kept[k]],
         start |-> ContentStart(cleaned_content, keys[kept[k]]),
         end   |-> ContentEnd(cleaned_content, keys, kept[k])]]

\* Per title the loop of lines 117-134 maps, its `start` and `end`.
MappedSpansOfKeys(cleaned_content, keys) ==
    SpansOfKeys(cleaned_content, keys, MappedKeys(cleaned_content, keys))

MappedSpans(groff_content, cleaned_content) ==
    MappedSpansOfKeys(cleaned_content, Keys(Subsections(groff_content)))

\* Lines 131-132 for the spans: the dict `mapped_sections`, as the sequence
\* of its items.
SectionsOfSpans(cleaned_content, spans) ==
    [k \in 1..Len(spans) |->
        [title   |-> spans[k].title,
         content |-> Strip(Slice(cleaned_content, spans[k].start, spans[k].end))]]

\* What a run of extract_and_map_sections leaves when its second loop has
\* gone over the keys `keys` of `subsections` and mapped `spans`: the keys,
\* the spans, and the dict it returns.
RunOfSpans(cleaned_content, keys, spans) ==
    [titles |-> keys, spans |-> spans,
     sections |-> SectionsOfSpans(cleaned_content, spans)]

\* The run from the keys of `subsections` on (lines 116-136).
RunOfKeys(cleaned_content, keys) ==
    RunOfSpans(cleaned_content, keys, MappedSpansOfKeys(cleaned_content, keys))

\* The run from the raw spans `raw` of the matches on (lines 108-136): the
\* matches and their spans are kept beside what the second loop leaves.
RunOfRaw(groff_content, cleaned_content, matches, raw) ==
    [matches |-> matches, raw |-> raw]
    @@ RunOfKeys(cleaned_content, Keys(PutSpans(<<>>, groff_content, raw)))

\* The run for the header matches `matches`: `if not matches: return {}`
\* (lines 103-105), else the two loops.
RunOfMatches(groff_content, cleaned_content, matches) ==
    IF Len(matches) = 0
    THEN [matches |-> <<>>, raw |-> <<>>,
          titles |-> <<>>, spans |-> <<>>, sections |-> <<>>]
    ELSE RunOfRaw(groff_content, cleaned_content, matches,
                  SpansOfMatches(groff_content, matches))

\* A run of extract_and_map_sections(groff_content, cleaned_content).
RunOfExtract(groff_content, cleaned_content) ==
    RunOfMatches(groff_content, cleaned_content, FindHeaders(groff_content, 0))

\* extract_and_map_sections(groff_content, cleaned_content): the returned
\* dict.
extract_and_map_sections(groff_content, cleaned_content) ==
    RunOfExtract(groff_content, cleaned_content).sections

\* file.endswith(".gz")
IsGz(file) ==
    /\ Len(file) >= 3
    /\ SubSeq(file, Len(file) - 2, Len(file)) = <<".","g","z">>

\* file.split('.')[0]
NameSplit(file) ==
    IF Find(file, <<".">>, 0) = -1 THEN file ELSE Slice(file, 0, Find(file, <<".">>, 0))

(***************************************************************************)
(* The directory listings scrape.py is run on.  A file is its name, its    *)
(* decompressed content and what groff, which is deterministic, does with  *)
(* that content: its return code and its standard output.                  *)
(***************************************************************************)
TwoTitlesPage == [name |-> <<"l","s",".","1",".","g","z">>,
    content |-> <<".","S","H"," ","N","A","M","E","\n","x","\n",".","S","H"," ","B","\n","y">>]

LowerNamePage == [name |-> <<"c","p",".","1",".","g","z">>,
    content |-> <<" "," ",".","S","H"," ","\"","n","a","m","e","\""," ","\n",".","b","r","\n","\n",".","S","H"," "," ","A"," ","B","\n","z","\n">>]

NoMacroPage == [name |-> <<"m","v",".","1",".","g","z">>,
    content |-> <<"N","A","M","E","\n","x"," ","B">>]

NoNamePage == [name |-> <<"r","m",".","1",".","g","z">>,
    content |-> <<".","S","H"," ","B","\n","N","A","M"," ","E">>]

LowerMacroPage == [name |-> <<"l","n",".","1",".","g","z">>,
    content |-> <<".","s","h"," ","N","A","M","E","\n",".","p","p">>]

NoHeaderPage == [name |-> <<"d","d",".","1",".","g","z">>,
    content |-> <<".","T","H"," ","n","a","m","e","\n",".","P","P","\n",".","S","H","x"," ","B">>]

RepeatedPage == [name |-> <<"d","u",".","1",".","g","z">>,
    content |-> <<".","S","H"," ","N","A","M","E","\n","a","\n",".","S","H"," ","B","\n","\n",".","S","H"," ","N","A","M","E","\n","b">>]

PrefixPage == [name |-> <<"d","f",".","1",".","g","z">>,
    content |-> <<".","S","H"," ","A","\n",".","S","H"," ","N","A","M","E","\n",".","S","H"," ","A","B","\n">>]

ManyPage == [name |-> <<"s","h",".","1",".","g","z">>,
    content |-> <<".","S","H"," ","N","A","M","E","\n",".","S","H"," ","A","\n",".","S","H"," ","B","\n",".","S","H"," ","C","\n",".","S","H"," ","D","\n",".","S","H"," ","E","\n",".","S","H"," ","F","\n",".","S","H"," ","G","\n",".","S","H"," ","H","\n",".","S","H"," ","I","\n",".","S","H"," ","J","\n">>]

PlainFile == [name |-> <<"R","E","A","D","M","E">>,
    content |-> <<".","S","H"," ","N","A","M","E","\n",".","S","H"," ","B">>]

InOrderText == <<"N","A","M","E","\n"," ","x","\n","B","\n"," ","y","\n">>

BeforeText == <<"B"," ","q"," ","N","A","M","E"," ","r"," ","B"," ","s">>

NoNameText == <<"B","\n","y">>

NameOnlyText == <<" ","N","A","M","E"," ","x"," ">>

PrefixText == <<"A","B"," ","A"," ","N","A","M","E"," ","z">>

AnsiText == <<"ESC","[","1","m","N","ESC","[","0",";","1"," ","m","A","M","E","ESC","M"," ","A"," ","B","ESC","["," ","x">>

ManyText == <<"N","A","M","E"," ","A"," ","B"," ","C"," ","D"," ","E"," ","F"," ","G"," ","H"," ","I"," ","J">>

EmptyText == <<>>

NoNextText == <<"N","A","M","E"," ","x","y">>

\* A page with groff's answer to it.
Groff(page, returncode, stdout) ==
    [name |-> page.name, content |-> page.content,
     returncode |-> returncode, stdout |-> stdout]

FilePool ==
    {Groff(TwoTitlesPage, 0, text) :
        text \in {InOrderText, BeforeText, NoNameText, NameOnlyText, AnsiText, EmptyText,
                  NoNextText}}
    \cup {Groff(PrefixPage, 0, text) : text \in {PrefixText, InOrderText}}
    \cup {Groff(page, 0, InOrderText) :
            page \in {NoMacroPage, NoNamePage, LowerMacroPage, NoHeaderPage,
                      RepeatedPage, PlainFile}}
    \cup {Groff(TwoTitlesPage, 1, EmptyText),
          Groff(LowerNamePage, 0, AnsiText),
          Groff(ManyPage, 0, ManyText)}

\* extract_man_pages starts on a directory listing.
Init ==
    /\ pc = "scrape"
    /\ files \in SeqsUpTo(FilePool, MaxFiles)
    /\ fi = 1
    /\ rendered = <<>>
    /\ data = <<>>
    /\ aligned = <<>>
    /\ dataset = <<>>
    /\ gi = 1
    /\ out = <<>>

\* The loop of extract_man_pages stands at a file.
AtFile == pc = "scrape" /\ fi <= Len(files)

\* A file whose name does not end in ".gz" is passed over (line 154).
SkipNotGz ==
    /\ AtFile
    /\ ~IsGz(files[fi].name)
    /\ fi' = fi + 1
    /\ UNCHANGED <<pc, files, rendered, data, aligned, dataset, gi, out>>

\* A file the validity gate turns away (lines 160, 187-189).
RejectNonStandard ==
    /\ AtFile
    /\ IsGz(files[fi].name)
    /\ ~is_standard_groff(files[fi].content)
    /\ fi' = fi + 1
    /\ UNCHANGED <<pc, files, rendered, data, aligned, dataset, gi, out>>

\* A variant in which a failure of groff ends the loop over the listing.
RenderFails_Aborts ==
    /\ AtFile
    /\ IsGz(files[fi].name)
    /\ is_standard_groff(files[fi].content)
    /\ files[fi].returncode # 0
    /\ rendered' = Append(rendered, [file |-> fi, ok |-> FALSE])
    /\ fi' = Len(files) + 1
    /\ UNCHANGED <<pc, files, data, aligned, dataset, gi, out>>

\* groff fails: handle_groff returns the bare status, the unpacking of line
\* 164 raises TypeError, and the handler of line 191 goes on to the next
\* file.
RenderFails ==
    /\ AtFile
    /\ IsGz(files[fi].name)
    /\ is_standard_groff(files[fi].content)
    /\ files[fi].returncode # 0
    /\ rendered' = Append(rendered, [file |-> fi, ok |-> FALSE])
    /\ fi' = fi + 1
    /\ UNCHANGED <<pc, files, data, aligned, dataset, gi, out>>

\* groff succeeds: its output is cleaned of terminal formatting, the
\* sections are extracted and mapped, and the entry is appended (lines
\* 160-172).
CollectPage ==
    /\ AtFile
    /\ IsGz(files[fi].name)
    /\ is_standard_groff(files[fi].content)
    /\ files[fi].returncode = 0
    /\ \E cleaned_content \in {clear_terminal_formatting(files[fi].stdout)} :
       \E run \in {RunOfExtract(files[fi].content, cleaned_content)} :
        /\ data' = Append(data,
                [name |-> NameSplit(files[fi].name), sections |-> run.sections])
        /\ aligned' = Append(aligned,
                [file |-> fi, cleaned |-> cleaned_content,
                 matches |-> run.matches, raw |-> run.raw,
                 titles |-> run.titles, spans |-> run.spans])
    /\ rendered' = Append(rendered, [file |-> fi, ok |-> TRUE])
    /\ fi' = fi + 1
    /\ UNCHANGED <<pc, files, dataset, gi, out>>

\* main() dumps `data` to man_pages.json and gen_samples.py loads it: keys
\* are unique and keep their order, strings come back as written.
SaveAndLoad ==
    /\ pc = "scrape"
    /\ fi > Len(files)
    /\ dataset' = data
    /\ gi' = 1
    /\ pc' = "generate"
    /\ UNCHANGED <<files, fi, rendered, data, aligned, out>>

Next ==
    \/ SkipNotGz
    \/ RejectNonStandard
    \/ RenderFails
    \/ CollectPage
    \/ SaveAndLoad
    \/ GenSkipFew
    \/ GenSkipMany
    \/ GenEmit
    \/ GenDone

Spec == Init /\ [][Next]_vars

(***************************************************************************)
(* Properties of gen_samples.py: C1 and C3 are checked under SpecGate,     *)
(* C4, C8 and C9 under SpecGen.  The properties of scrape.py that follow   *)
(* them are checked under Spec.                                            *)
(***************************************************************************)
\* The records written for the dataset's d-th document, in write order.
DocRecords(d) == SelectSeq(out, LAMBDA r : r.doc = d)

\* The titles of the dataset's d-th document, in document order.
DocTitles(d) == [i \in 1..Len(dataset[d].sections) |-> dataset[d].sections[i].title]

\* The documents the loop has finished with.
ProcessedDocs == 1..(gi - 1)

\* C1: for a document of n distinct titles, 2 <= n <= 10, the generator
\* yields exactly 2^n - 2 pairs; every non-empty proper subset of the
\* titles is the input of exactly one pair; in every pair input and output
\* are non-empty and disjoint, their union is the title set, and the output
\* is the title set minus the input.
C1_CombinationsArePartitions ==
    \A d \in ProcessedDocs :
        \A titles \in {Range(DocTitles(d))} :
        \A recs \in {DocRecords(d)} :
        \A inputs \in {{Range(recs[i].input_sections) : i \in 1..Len(recs)}} :
            (2 <= Cardinality(titles) /\ Cardinality(titles) <= 10) =>
                /\ Len(recs) = 2^Cardinality(titles) - 2
                /\ inputs = (SUBSET titles) \ {{}, titles}
                /\ Cardinality(inputs) = Len(recs)
                /\ \A i \in 1..Len(recs) :
                    \A inT \in {Range(recs[i].input_sections)} :
                    \A outT \in {Range(recs[i].output_sections)} :
                        /\ inT # {}
                        /\ outT # {}
                        /\ inT \cap outT = {}
                        /\ inT \cup outT = titles
                        /\ outT = titles \ inT
                        /\ Len(recs[i].input_sections) = Cardinality(inT)
                        /\ Len(recs[i].output_sections) = Cardinality(outT)

\* A document of ten sections has been split.
C1_Witness ==
    \E d \in ProcessedDocs :
        /\ Len(dataset[d].sections) = 10
        /\ Len(DocRecords(d)) = 1022

\* C3: a document contributes records iff its section count n is in 2..10:
\* none for n < 2 or n > 10, exactly 2^n - 2 otherwise; and a rejected
\* document does not stop the later ones: when the run is over every
\* document of the dataset has been looked at.
C3_SectionCountGate ==
    /\ \A d \in ProcessedDocs :
        LET n == Len(dataset[d].sections)
        IN  Len(DocRecords(d)) = IF 2 <= n /\ n <= 10 THEN 2^n - 2 ELSE 0
    /\ \A i \in 1..Len(out) : out[i].doc \in ProcessedDocs
    /\ pc = "done" => gi = Len(dataset) + 1

\* An eleven-section document was rejected and the document after it was
\* still split.
C3_Witness ==
    /\ pc = "done"
    /\ Len(dataset) = 2
    /\ Len(dataset[1].sections) = 11
    /\ DocRecords(1) = <<>>
    /\ Len(DocRecords(2)) = 2

\* The positions, in the title list `titles`, of the titles ts.
Positions(titles, ts) ==
    [k \in 1..Len(ts) |-> CHOOSE i \in 1..Len(titles) : titles[i] = ts[k]]

\* A sequence of numbers that strictly increases.
Increasing(ps) == \A k \in 1..(Len(ps) - 1) : ps[k] < ps[k + 1]

\* C4: on each side of every record the titles are in the document's
\* section order.
C4_SidesInDocumentOrder ==
    \A d \in ProcessedDocs :
        \A titles \in {DocTitles(d)} :
        \A recs \in {DocRecords(d)} :
            \A i \in 1..Len(recs) :
                /\ Range(recs[i].input_sections) \subseteq Range(titles)
                /\ Range(recs[i].output_sections) \subseteq Range(titles)
                /\ Increasing(Positions(titles, recs[i].input_sections))
                /\ Increasing(Positions(titles, recs[i].output_sections))

\* A record whose two sides interleave in the document: the input holds the
\* first and third title, the output the second and fourth.
C4_Witness ==
    \E i \in 1..Len(out) :
        /\ Len(DocTitles(out[i].doc)) = 4
        /\ out[i].input_sections = <<DocTitles(out[i].doc)[1], DocTitles(out[i].doc)[3]>>
        /\ out[i].output_sections = <<DocTitles(out[i].doc)[2], DocTitles(out[i].doc)[4]>>

\* Tuples of equal length: a before b in lexicographic order.
LexLess(a, b) ==
    \E k \in 1..Len(a) :
        /\ a[k] < b[k]
        /\ \A j \in 1..(k - 1) : a[j] = b[j]

\* C8: the records are in document-then-combination order: the records of
\* a document are contiguous and precede those of every later document;
\* within a document they come by input size, ascending from 1 to n - 1,
\* and within a size in lexicographic order of the titles' positions.
C8_RecordOrder ==
    /\ \A i \in 1..(Len(out) - 1) : out[i].doc <= out[i + 1].doc
    /\ \A d \in ProcessedDocs :
        \A titles \in {DocTitles(d)} :
        \A recs \in {DocRecords(d)} :
        \A pos \in {[i \in 1..Len(recs) |-> Positions(titles, recs[i].input_sections)]} :
            /\ \A i \in 1..(Len(recs) - 1) :
                \/ Len(pos[i]) < Len(pos[i + 1])
                \/ /\ Len(pos[i]) = Len(pos[i + 1])
                   /\ LexLess(pos[i], pos[i + 1])
            /\ recs # <<>> =>
                /\ Len(pos[1]) = 1
                /\ Len(pos[Len(recs)]) = Len(titles) - 1

\* Two documents were split, the second of at least three sections.
C8_Witness ==
    /\ pc = "done"
    /\ Len(dataset) = 2
    /\ DocRecords(1) # <<>>
    /\ Len(DocRecords(2)) >= 6

\* The content of a section with leading and trailing whitespace removed,
\* said without saying how: the part of s between a whitespace prefix and a
\* whitespace suffix that neither starts nor ends with whitespace.
Trimmed(s) ==
    CHOOSE t \in {SubSeq(s, i, j) : i \in 1..(Len(s) + 1), j \in 0..Len(s)} :
        /\ t = <<>> \/ (t[1] \notin Whitespace /\ t[Len(t)] \notin Whitespace)
        /\ \E i \in 1..(Len(s) + 1 - Len(t)) :
            /\ SubSeq(s, i, i + Len(t) - 1) = t
            /\ \A k \in 1..(i - 1) : s[k] \in Whitespace
            /\ \A k \in (i + Len(t))..Len(s) : s[k] \in Whitespace

\* A title's block as the specification words it: '<SECTION>' title
\* '</SECTION>' newline trimmed-content.
ExpectedBlock(title, content) ==
    <<"<","S","E","C","T","I","O","N",">">> \o title
        \o <<"<","/","S","E","C","T","I","O","N",">">> \o <<"\n">> \o Trimmed(content)

RECURSIVE NewlineJoined(_, _)
\* The blocks numbered ps, each but the last followed by a newline.
NewlineJoined(blocks, ps) ==
    IF Len(ps) = 0 THEN <<>>
    ELSE IF Len(ps) = 1 THEN blocks[ps[1]]
    ELSE NewlineJoined(blocks, SubSeq(ps, 1, Len(ps) - 1)) \o <<"\n">> \o blocks[ps[Len(ps)]]

LsNameBlock ==
    <<"<","S","E","C","T","I","O","N",">","N","A","M","E","<","/","S","E","C","T","I","O","N",">","\n","l","s"," ","-"," ","l","i","s","t"," ","d","i","r","e","c","t","o","r","y"," ","c","o","n","t","e","n","t","s">>

LsOptionsBlock ==
    <<"<","S","E","C","T","I","O","N",">","O","P","T","I","O","N","S","<","/","S","E","C","T","I","O","N",">","\n","-","a"," "," ","d","o"," ","n","o","t"," ","i","g","n","o","r","e"," ","e","n","t","r","i","e","s"," ","s","t","a","r","t","i","n","g"," ","w","i","t","h"," ",".">>

\* C9: each side of every record is the newline-join of its titles' tagged
\* blocks with the content trimmed; the example document 'ls' gives exactly
\* two records, NAME -> OPTIONS and then OPTIONS -> NAME.
C9_RecordFormat ==
    \A d \in ProcessedDocs :
        \A titles \in {DocTitles(d)} :
        \A blocks \in {[k \in 1..Len(titles) |->
                        ExpectedBlock(titles[k], dataset[d].sections[k].content)]} :
        \A recs \in {DocRecords(d)} :
            /\ \A i \in 1..Len(recs) :
                /\ recs[i].input
                    = NewlineJoined(blocks, Positions(titles, recs[i].input_sections))
                /\ recs[i].output
                    = NewlineJoined(blocks, Positions(titles, recs[i].output_sections))
            /\ dataset[d] = LsDoc =>
                [k \in 1..Len(recs) |-> <<recs[k].input, recs[k].output>>]
                = << <<LsNameBlock, LsOptionsBlock>>, <<LsOptionsBlock, LsNameBlock>> >>

\* The example document was split, after a document whose bodies carry
\* whitespace at both ends.
C9_Witness ==
    /\ pc = "done"
    /\ Len(dataset) = 2
    /\ dataset[1] = PrefixDoc
    /\ dataset[2] = LsDoc
    /\ Len(out) = 8

(***************************************************************************)
(* Properties of scrape.py, on the pipeline Spec.  data[k] and aligned[k]  *)
(* are the entry and the run of extract_and_map_sections of the same page. *)
(***************************************************************************)
\* Whether `sub` occurs in `text`.
Occurs(sub, text) ==
    \E p \in 0..(Len(text) - Len(sub)) :
        \A i \in 1..Len(sub) : text[p + i] = sub[i]

\* Where the slice cleaned_content[span.start:span.end] stops: a negative
\* end counts from the end of the text, and a stop before the start gives
\* the empty slice.
SliceStop(cleaned_content, span) ==
    LET e == IF span.end < 0 THEN Len(cleaned_content) + span.end
             ELSE IF span.end > Len(cleaned_content) THEN Len(cleaned_content)
             ELSE span.end
    IN  IF e < span.start THEN span.start ELSE e

\* C2: the content slices of the retained sections of a page are pairwise
\* non-overlapping slices of the rendered text, and their start offsets
\* strictly increase in document order.
C2_SlicesDisjointAndIncreasing ==
    \A k \in 1..Len(aligned) :
        \A i, j \in 1..Len(aligned[k].spans) :
            i < j =>
                /\ aligned[k].spans[i].start < aligned[k].spans[j].start
                /\ SliceStop(aligned[k].cleaned, aligned[k].spans[i])
                    <= aligned[k].spans[j].start

\* The parsed titles of a run that occur in its rendered text, in order.
LocatableTitles(run) ==
    SelectSeq(run.titles, LAMBDA title : Occurs(title, run.cleaned))

\* C5: the mapping of a page holds exactly the parsed titles that occur in
\* the rendered text, in document order, so a title that is missing drops
\* that section alone; a page left with one section gives no record.
C5_MissingTitleDropped ==
    /\ Len(data) = Len(aligned)
    /\ \A k \in 1..Len(aligned) :
        Keys(data[k].sections) = LocatableTitles(aligned[k])
    /\ \A d \in ProcessedDocs :
        Len(dataset[d].sections) = 1 => Len(DocRecords(d)) = 0

\* A page with two parsed titles kept one section and gave no record, and
\* the page after it was split.
C5_Witness ==
    /\ pc = "done"
    /\ Len(aligned) = 2
    /\ Len(aligned[1].titles) = 2
    /\ Len(data[1].sections) = 1
    /\ Len(DocRecords(1)) = 0
    /\ Len(DocRecords(2)) = 2

\* The files the loop of extract_man_pages has finished with.
ProcessedFiles == 1..(fi - 1)

\* The files an entry was appended for.
CollectedFiles == {aligned[k].file : k \in 1..Len(aligned)}

\* C6: a page groff fails on adds no entry, and the loop goes on: every
\* later page that passes the gate and renders has its entry, and the loop
\* ends only past the last file.
C6_RenderFailureSkipsPage ==
    /\ Len(data) = Len(aligned)
    /\ \A f \in ProcessedFiles :
        files[f].returncode # 0 => f \notin CollectedFiles
    /\ \A f \in ProcessedFiles :
        (/\ IsGz(files[f].name)
         /\ is_standard_groff(files[f].content)
         /\ files[f].returncode = 0) => f \in CollectedFiles
    /\ pc # "scrape" => fi = Len(files) + 1

\* groff failed on the first page and the second page was collected.
C6_Witness ==
    /\ pc = "done"
    /\ Len(files) = 2
    /\ rendered = <<[file |-> 1, ok |-> FALSE], [file |-> 2, ok |-> TRUE]>>
    /\ CollectedFiles = {2}
    /\ Len(data) = 1

\* C7: a page that passes the gate and has no section header adds no entry
\* to the collected pages and no record to the dataset.
C7_PageWithoutHeadersSkipped ==
    /\ \A k \in 1..Len(aligned) : Len(aligned[k].titles) > 0
    /\ \A d \in ProcessedDocs :
        Len(dataset[d].sections) = 0 => Len(DocRecords(d)) = 0

\* The letters of the mandatory title, in either case.
NameLetters == <<{"N","n"}, {"A","a"}, {"M","m"}, {"E","e"}>>

\* Whether NAME occurs in the text under case-insensitive comparison.
NameOccursAnyCase(text) ==
    \E p \in 0..(Len(text) - Len(NameLetters)) :
        \A i \in 1..Len(NameLetters) : text[p + i] \in NameLetters[i]

\* Whether one of the markers .SH, .TH, .PP, .br occurs in the text.
MarkerOccurs(text) ==
    \E marker \in {<<".","S","H">>, <<".","T","H">>, <<".","P","P">>, <<".","b","r">>} :
        Occurs(marker, text)

\* The files handed to groff.
RenderedFiles == {rendered[r].file : r \in 1..Len(rendered)}

\* C10: is_standard_groff accepts a page exactly when NAME occurs in it in
\* any case and one of the four markers occurs in it; a rejected page is
\* never handed to groff and adds no entry, an accepted .gz page is handed
\* to groff.
C10_ValidityGate ==
    \A f \in 1..Len(files) :
        \A accepted \in {NameOccursAnyCase(files[f].content) /\ MarkerOccurs(files[f].content)} :
            /\ is_standard_groff(files[f].content) <=> accepted
            /\ ~accepted => f \notin RenderedFiles /\ f \notin CollectedFiles
            /\ (accepted /\ IsGz(files[f].name) /\ f \in ProcessedFiles)
                    => f \in RenderedFiles

\* A page whose only NAME is in lower case was collected, and the page
\* after it, which has NAME and no marker, was passed over.
C10_Witness ==
    /\ pc = "done"
    /\ Len(files) = 2
    /\ ~Occurs(<<"N","A","M","E">>, files[1].content)
    /\ NameOccursAnyCase(files[1].content)
    /\ CollectedFiles = {1}
    /\ NameOccursAnyCase(files[2].content)
    /\ ~MarkerOccurs(files[2].content)
    /\ IsGz(files[2].name)
    /\ RenderedFiles = {1}

\* The raw text the k-th collected page was parsed from.
RawText(k) == files[aligned[k].file].content

\* C11 as stated: the raw spans of a page are in document order and do not
\* overlap, each span ends where the next span starts, and the last span
\* ends at the end of the text.
C11_RawSpansAbut ==
    \A k \in 1..Len(aligned) :
        \A raw \in {aligned[k].raw} :
        \A i \in 1..Len(raw) :
            /\ raw[i].start <= raw[i].end
            /\ IF i < Len(raw) THEN raw[i].end = raw[i + 1].start
               ELSE raw[i].end = Len(RawText(k))

\* C11, amended: the raw spans of a page are in document order and do not
\* overlap; each span starts where its header match ends and ends where
\* the next header match starts, which is before the next span starts; the
\* last span ends at the end of the text.
C11_RawSpansBetweenHeaders ==
    \A k \in 1..Len(aligned) :
        \A raw \in {aligned[k].raw} :
        \A matches \in {aligned[k].matches} :
            /\ Len(raw) = Len(matches)
            /\ \A i \in 1..Len(raw) :
                /\ raw[i].start = matches[i].end
                /\ raw[i].start <= raw[i].end
                /\ IF i < Len(raw)
                   THEN /\ raw[i].end = matches[i + 1].start
                        /\ raw[i].end < raw[i + 1].start
                   ELSE raw[i].end = Len(RawText(k))

\* A page with three headers was collected, and its first span has text.
C11_Witness ==
    \E k \in 1..Len(aligned) :
        /\ Len(aligned[k].raw) = 3
        /\ aligned[k].raw[1].start < aligned[k].raw[1].end
        /\ aligned[k].raw[2].start < aligned[k].raw[2].end

\* Whether `sub` occurs in `text` at or after the offset `from`.
OccursFrom(sub, text, from) ==
    \E p \in from..(Len(text) - Len(sub)) :
        \A i \in 1..Len(sub) : text[p + i] = sub[i]

\* Whether the parsed title after `title` is found at or after `from` in
\* the text of the run; the last parsed title has none after it.
NextTitleFound(run, title, from) ==
    \E t \in 1..(Len(run.titles) - 1) :
        /\ run.titles[t] = title
        /\ OccursFrom(run.titles[t + 1], run.cleaned, from)

\* C12: a retained section whose following parsed title is not found at or
\* after its content start has as content the rendered text from that
\* start to the very end, trimmed, with no character lost.
C12_ContentRunsToEndOfText ==
    \A k \in 1..Len(aligned) :
        \A run \in {aligned[k]} :
        \A i \in 1..Len(run.spans) :
            ~NextTitleFound(run, run.spans[i].title, run.spans[i].start) =>
                data[k].sections[i].content
                    = Strip(Slice(run.cleaned, run.spans[i].start, Len(run.cleaned)))

====
